---------------------------- MODULE Spec2Model ----------------------------
(***************************************************************************)
(* A model of the transaction engine: the disk-backed TransactionCache,    *)
(* the Client ledger state machine and the TransactionProcessor registry.  *)
(*                                                                         *)
(* Amounts are rust_decimal values of scale <= 4; the model holds them as  *)
(* integers counting ten-thousandths (1.5 is 15000), which is exact for    *)
(* every value Amount::from_str accepts and keeps Decimal's numeric        *)
(* equality and ordering.  Amount texts are sequences of one-character     *)
(* strings.  A HashMap is a function whose DOMAIN is its key set.          *)
(***************************************************************************)
EXTENDS Integers, Sequences, FiniteSets, TLC

VARIABLES
    clients,    \* TransactionProcessor.clients: ClientId -> Client
    last,       \* the record handed to process_transaction last, and its result
    before,     \* ghost: the target ledger's balances before that call
    applied,    \* ghost: <<client, tx, type>> of every deposit/withdrawal that returned Ok
    nrecords,   \* number of records consumed from the input stream
    store,      \* a TransactionCache driven directly (store-level claims)
    shadow,     \* ghost: the HashMap the store is documented to behave as
    sret,       \* the store operation performed last, and what it returned
    sinserts,   \* ghost: TRUE while only inserts of fresh ids have been performed
    sremoved,   \* ghost: ids that remove returned a transaction for, not inserted since
    sops,       \* number of operations performed on the store
    limits,     \* the generic parameters the processor is instantiated with
    plain       \* ghost: a processor whose stores never flush, fed the same records

ledgerVars == <<clients, last, before, applied, nrecords>>
storeVars == <<store, shadow, sret, sinserts, sremoved, sops>>
genericVars == <<limits, plain>>
vars == <<clients, last, before, applied, nrecords,
          store, shadow, sret, sinserts, sremoved, sops, limits, plain>>

(***************************************************************************)
(* Bounds of the model.                                                    *)
(***************************************************************************)
\* The const generic parameters CACHE_SIZE_LIMIT and CACHE_LINE_SIZE of
\* TransactionCache, Client and TransactionProcessor are instantiated small,
\* so that flushes and reloads happen within a few records.
MaxSizeLimit == 1
MaxLineSize == 2
CACHE_SIZE_LIMIT == MaxSizeLimit
CACHE_LINE_SIZE == MaxLineSize
\* Transaction ids of the records are 0..MaxTx.
MaxTx == 2
\* Records read from the input stream in one run: of one account, and of
\* the two-account stream.
MaxRecords == 4
MaxAccountRecords == 3
\* Records read in one run by the processors of other generic parameters.
MaxGenericRecords == 4
\* Records read in one run of the stream that carries ill-formed records.
MaxParsedRecords == 3
\* The directly driven store: ids 0..MaxStoreTx, at most MaxStoreOps operations.
MaxStoreTx == 3
MaxStoreOps == 5
\* The store driven long enough to spill two lines and read them back.
MaxResidencyOps == 6

TxIds == 0..MaxTx
StoreTxIds == 0..MaxStoreTx
\* The account of the single-account stream, and those of the two-account one.
ClientIds == {1}
AccountIds == {1, 2}

(***************************************************************************)
(* HashMap helpers.                                                        *)
(***************************************************************************)
EmptyMap == <<>>

MapPut(m, k, v) == [x \in (DOMAIN m) \cup {k} |-> IF x = k THEN v ELSE m[x]]

MapDel(m, k) == [x \in (DOMAIN m) \ {k} |-> m[x]]

\* HashMap::extend: entries of n replace entries of m with the same key.
MapExtend(m, n) ==
    [x \in (DOMAIN m) \cup (DOMAIN n) |-> IF x \in DOMAIN n THEN n[x] ELSE m[x]]

\* Option<T>
None == [some |-> FALSE]
Some(v) == [some |-> TRUE, val |-> v]

(***************************************************************************)
(* type_defs.rs: Transaction                                               *)
(***************************************************************************)
Deposit(c, t, a) == [type |-> "Deposit", client |-> c, tx |-> t, amount |-> a]
Withdrawal(c, t, a) == [type |-> "Withdrawal", client |-> c, tx |-> t, amount |-> a]
Dispute(c, t) == [type |-> "Dispute", client |-> c, tx |-> t]
Resolve(c, t) == [type |-> "Resolve", client |-> c, tx |-> t]
ChargeBack(c, t) == [type |-> "ChargeBack", client |-> c, tx |-> t]
Unknown == [type |-> "Unknown"]

(***************************************************************************)
(* transaction_cache.rs: TransactionCache                                  *)
(*                                                                         *)
(* A store is [cache, cache_size, cache_size_limit, line_size, disk]:      *)
(* cache maps a CacheKey to a CacheLine [loaded, transactions]; disk maps  *)
(* a CacheKey to the content of the file of that name in cache_dir;        *)
(* line_size is the generic parameter CACHE_LINE_SIZE.  An operation       *)
(* returns [store, ret]: the store after the call and the value returned.  *)
(***************************************************************************)
CacheKeyFrom(line_size, transaction_id) == transaction_id \div line_size

CacheLineDefault == [loaded |-> FALSE, transactions |-> EmptyMap]

TransactionCache_new(limit, line_size) ==
    [cache |-> EmptyMap, cache_size |-> 0, cache_size_limit |-> limit,
     line_size |-> line_size, disk |-> EmptyMap]

\* self.cache.entry(cache_key).or_insert_with(CacheLine::default)
EntryOrDefault(cache, cache_key) ==
    IF cache_key \in DOMAIN cache THEN cache[cache_key] ELSE CacheLineDefault

\* A load that marks the line loaded without reading its file.
load_cache_reads_nothing(disk, cache_key, cache_line) ==
    IF ~cache_line.loaded /\ cache_key \in DOMAIN disk
    THEN [line |-> [cache_line EXCEPT !.loaded = TRUE], num_loaded |-> 0]
    ELSE [line |-> cache_line, num_loaded |-> 0]

\* Returns the cache line after the load and the number of records read.
load_cache(disk, cache_key, cache_line) ==
    IF ~cache_line.loaded /\ cache_key \in DOMAIN disk
    THEN [line |-> [loaded |-> TRUE,
                    transactions |-> MapExtend(cache_line.transactions, disk[cache_key])],
          num_loaded |-> Cardinality(DOMAIN disk[cache_key])]
    ELSE [line |-> cache_line, num_loaded |-> 0]

\* self.cache_size += Self::load_cache(..): the entry holds the line after
\* the load, and cache_size grows by the number of records read.
AfterLoad(s, cache_key, ld) ==
    [s EXCEPT !.cache = MapPut(s.cache, cache_key, ld.line),
              !.cache_size = s.cache_size + ld.num_loaded]

\* The prefix shared by get, contains_key and remove.
Touch(s, cache_key) ==
    AfterLoad(s, cache_key, load_cache(s.disk, cache_key, EntryOrDefault(s.cache, cache_key)))

\* cache_line.transactions.get(transaction_id)
get_line(s1, transactions, transaction_id) ==
    [store |-> s1,
     ret |-> IF transaction_id \in DOMAIN transactions
             THEN Some(transactions[transaction_id]) ELSE None]

get_loaded(s1, cache_key, transaction_id) ==
    get_line(s1, s1.cache[cache_key].transactions, transaction_id)

get(s, transaction_id) ==
    get_loaded(Touch(s, CacheKeyFrom(s.line_size, transaction_id)),
               CacheKeyFrom(s.line_size, transaction_id), transaction_id)

contains_key_loaded(s1, cache_key, transaction_id) ==
    [store |-> s1, ret |-> transaction_id \in DOMAIN s1.cache[cache_key].transactions]

contains_key(s, transaction_id) ==
    contains_key_loaded(Touch(s, CacheKeyFrom(s.line_size, transaction_id)),
                        CacheKeyFrom(s.line_size, transaction_id), transaction_id)

\* cache_line.transactions.remove(transaction_id)
remove_line(s1, cache_key, transactions, transaction_id) ==
    IF transaction_id \in DOMAIN transactions
    THEN [store |-> [s1 EXCEPT !.cache[cache_key].transactions =
                                   MapDel(transactions, transaction_id)],
          ret |-> Some(transactions[transaction_id])]
    ELSE [store |-> s1, ret |-> None]

remove_loaded(s1, cache_key, transaction_id) ==
    remove_line(s1, cache_key, s1.cache[cache_key].transactions, transaction_id)

\* A remove that does not read the line's file first.
remove_without_load(s, transaction_id) ==
    remove_loaded([s EXCEPT !.cache =
                      MapPut(s.cache, CacheKeyFrom(s.line_size, transaction_id),
                             EntryOrDefault(s.cache, CacheKeyFrom(s.line_size, transaction_id)))],
                  CacheKeyFrom(s.line_size, transaction_id), transaction_id)

remove(s, transaction_id) ==
    remove_loaded(Touch(s, CacheKeyFrom(s.line_size, transaction_id)),
                  CacheKeyFrom(s.line_size, transaction_id), transaction_id)

\* Truncate-and-rewrite of the file named by cache_key.
store_cache_line(disk, cache_key, cache_line) ==
    MapPut(disk, cache_key, cache_line.transactions)

\* The files after every resident line was written.
StoreAllLines(disk, cache) ==
    [k \in (DOMAIN disk) \cup (DOMAIN cache) |->
        IF k \in DOMAIN cache THEN store_cache_line(disk, k, cache[k])[k] ELSE disk[k]]

\* A flush that discards the resident lines without writing them.
store_cache_forgets(s) ==
    IF s.cache_size > s.cache_size_limit
    THEN [s EXCEPT !.cache = EmptyMap, !.cache_size = 0]
    ELSE s

store_cache(s) ==
    IF s.cache_size > s.cache_size_limit
    THEN [s EXCEPT !.disk = StoreAllLines(s.disk, s.cache),
                   !.cache = EmptyMap,
                   !.cache_size = 0]
    ELSE s

\* The entry's map takes the transaction (the line keeps its loaded flag),
\* cache_size grows by one, and store_cache runs.
insert_line(s, cache_key, cache_line, transaction_id, transaction) ==
    [store |->
        store_cache([s EXCEPT
            !.cache = MapPut(s.cache, cache_key,
                             [cache_line EXCEPT !.transactions =
                                 MapPut(cache_line.transactions, transaction_id,
                                        transaction)]),
            !.cache_size = s.cache_size + 1]),
     ret |-> IF transaction_id \in DOMAIN cache_line.transactions
             THEN Some(cache_line.transactions[transaction_id]) ELSE None]

insert_at(s, cache_key, transaction_id, transaction) ==
    insert_line(s, cache_key, EntryOrDefault(s.cache, cache_key), transaction_id, transaction)

insert(s, transaction_id, transaction) ==
    insert_at(s, CacheKeyFrom(s.line_size, transaction_id), transaction_id, transaction)

(***************************************************************************)
(* type_defs.rs: Amount                                                    *)
(***************************************************************************)
PRECISION == 4

Digits == <<"0", "1", "2", "3", "4", "5", "6", "7", "8", "9">>

IsDigit(ch) == \E i \in 1..10 : Digits[i] = ch

DigitVal(ch) == (CHOOSE i \in 1..10 : Digits[i] = ch) - 1

RECURSIVE Pow10(_)
Pow10(n) == IF n = 0 THEN 1 ELSE 10 * Pow10(n - 1)

\* The digits of a text read as a natural number, the point skipped.
RECURSIVE DigitsValue(_)
DigitsValue(text) ==
    IF text = <<>> THEN 0
    ELSE IF text[Len(text)] = "." THEN DigitsValue(SubSeq(text, 1, Len(text) - 1))
    ELSE 10 * DigitsValue(SubSeq(text, 1, Len(text) - 1)) + DigitVal(text[Len(text)])

IsSigned(text) == text # <<>> /\ text[1] \in {"-", "+"}

Unsigned(text) == IF IsSigned(text) THEN Tail(text) ELSE text

PointsOf(digits) == {i \in 1..Len(digits) : digits[i] = "."}

WellFormed(digits) ==
    /\ digits # <<>>
    /\ \A i \in 1..Len(digits) : IsDigit(digits[i]) \/ digits[i] = "."
    /\ Cardinality(PointsOf(digits)) <= 1
    /\ digits[1] # "."

ScaleOf(digits, points) ==
    IF points = {} THEN 0 ELSE Len(digits) - (CHOOSE i \in points : TRUE)

Decimal_of(negative, digits) ==
    IF WellFormed(digits)
    THEN [ok |-> TRUE,
          mantissa |-> (IF negative THEN -1 ELSE 1) * DigitsValue(digits),
          scale |-> ScaleOf(digits, PointsOf(digits))]
    ELSE [ok |-> FALSE]

\* rust_decimal's Decimal::from_str on the texts of the model: an optional
\* sign, then digits with at most one point among or after them.  The scale
\* is the number of digits after the point.
Decimal_from_str(text) == Decimal_of(IsSigned(text) /\ text[1] = "-", Unsigned(text))

\* The decimal digits of a natural number.
RECURSIVE NatDigits(_)
NatDigits(n) ==
    IF n < 10 THEN <<Digits[n + 1]>>
    ELSE Append(NatDigits(n \div 10), Digits[(n % 10) + 1])

\* The PRECISION digits that follow the point.
FractionText(n) ==
    [i \in 1..PRECISION |-> Digits[((n \div Pow10(PRECISION - i)) % 10) + 1]]

\* Decimal::to_string of a value of scale PRECISION (the scale of
\* Amount::new(), which sums and differences with amounts of scale <= 4
\* keep): sign, integer digits, point, four digits.
Unsigned_to_string(n) ==
    NatDigits(n \div Pow10(PRECISION)) \o <<".">> \o FractionText(n % Pow10(PRECISION))

Amount_to_string(amount) ==
    IF amount < 0 THEN <<"-">> \o Unsigned_to_string(0 - amount)
    ELSE Unsigned_to_string(amount)

\* Amount::new(): Decimal::new(0, 4)
Amount_new == 0

\* An Amount::from_str that rounds a longer fraction to PRECISION digits.
Amount_of_rounds(decimal) ==
    IF ~decimal.ok THEN [kind |-> "panic"]
    ELSE IF decimal.scale > PRECISION
    THEN [kind |-> "Ok", val |-> decimal.mantissa \div Pow10(decimal.scale - PRECISION)]
    ELSE [kind |-> "Ok", val |-> decimal.mantissa * Pow10(PRECISION - decimal.scale)]

\* Amount::from_str, once Decimal::from_str has answered.
Amount_of(decimal) ==
    IF ~decimal.ok THEN [kind |-> "panic"]
    ELSE IF decimal.scale > PRECISION THEN [kind |-> "Err", err |-> "Invalid precision"]
    ELSE [kind |-> "Ok", val |-> decimal.mantissa * Pow10(PRECISION - decimal.scale)]

\* Amount::from_str.  Decimal::from_str(..).unwrap() panics on a text that is
\* no decimal number: the result "panic" stands for the aborted process.
Amount_from_str(fixed_value) == Amount_of(Decimal_from_str(fixed_value))

(***************************************************************************)
(* type_defs.rs: TransactionRecord and Transaction::from_record            *)
(***************************************************************************)
TransactionRecord(ty, c, t, a) ==
    [transaction_type |-> ty, client |-> c, tx |-> t, amount |-> a]

\* record.amount.unwrap_or_else(|| "0.0".to_owned())
AmountTextOf(record) ==
    IF record.amount.some THEN record.amount.val ELSE <<"0", ".", "0">>

\* Amount::from_str(..)? inside the Deposit and Withdrawal arms.
WithAmount(record, amount) ==
    IF amount.kind # "Ok" THEN amount
    ELSE IF record.transaction_type = "deposit"
    THEN [kind |-> "Ok", val |-> Deposit(record.client, record.tx, amount.val)]
    ELSE [kind |-> "Ok", val |-> Withdrawal(record.client, record.tx, amount.val)]

\* A from_record that takes a record of any other type for a dispute.
from_record_lenient(record) ==
    IF record.transaction_type \in {"deposit", "withdrawal"}
    THEN WithAmount(record, Amount_from_str(AmountTextOf(record)))
    ELSE [kind |-> "Ok", val |-> Dispute(record.client, record.tx)]

from_record(record) ==
    CASE record.transaction_type \in {"deposit", "withdrawal"} ->
            WithAmount(record, Amount_from_str(AmountTextOf(record)))
      [] record.transaction_type = "dispute" ->
            [kind |-> "Ok", val |-> Dispute(record.client, record.tx)]
      [] record.transaction_type = "resolve" ->
            [kind |-> "Ok", val |-> Resolve(record.client, record.tx)]
      [] record.transaction_type = "chargeback" ->
            [kind |-> "Ok", val |-> ChargeBack(record.client, record.tx)]
      [] OTHER -> [kind |-> "Ok", val |-> Unknown]

(***************************************************************************)
(* client.rs: Client                                                       *)
(*                                                                         *)
(* Every operation returns [client, result]: the ledger after the call and *)
(* "Ok" or the error string of the code.  The error kinds of the design    *)
(* are named after the strings that carry them.                            *)
(***************************************************************************)
Ok == "Ok"
AccountLocked == "Account locked"
DuplicateTransaction == "Transaction already processed"
AlreadyDisputed == "Transaction already processed"
InsufficientFunds == "Insufficient funds"
TransactionNotFound == "Could not find disputed transaction"
WrongTransactionType == "Wrong transaction type"
InvalidPrecision == "Invalid precision"
UnrecognizedTransactionType == "Transaction::Unknown"

new_with_cache(client_id, processed_transactions, disputed) ==
    [client_id |-> client_id,
     available |-> Amount_new,
     held |-> Amount_new,
     total |-> Amount_new,
     locked |-> FALSE,
     processed_transactions |-> processed_transactions,
     disputed |-> disputed]

Client_new(client_id, limit, line_size) ==
    new_with_cache(client_id, TransactionCache_new(limit, line_size),
                   TransactionCache_new(limit, line_size))

can_process(self) == IF self.locked THEN AccountLocked ELSE Ok

\* deposit, once processed_transactions.contains_key has answered.
deposit_checked(self, transaction, seen) ==
    IF seen.ret
    THEN [client |-> [self EXCEPT !.processed_transactions = seen.store],
          result |-> DuplicateTransaction]
    ELSE [client |->
             [self EXCEPT !.available = self.available + transaction.amount,
                          !.total = self.total + transaction.amount,
                          !.processed_transactions =
                              insert(seen.store, transaction.tx, transaction).store],
          result |-> Ok]

deposit(self, transaction) ==
    IF can_process(self) # Ok THEN [client |-> self, result |-> can_process(self)]
    ELSE IF transaction.type = "Deposit"
    THEN deposit_checked(self, transaction,
                         contains_key(self.processed_transactions, transaction.tx))
    ELSE [client |-> self, result |-> "Wrong transaction type, expected deposit"]

\* A withdrawal that counts held funds: it compares the amount with total.
withdraw_checked_counts_held(self, transaction, seen) ==
    IF seen.ret
    THEN [client |-> [self EXCEPT !.processed_transactions = seen.store],
          result |-> DuplicateTransaction]
    ELSE IF transaction.amount <= self.total
    THEN [client |->
             [self EXCEPT !.available = self.available - transaction.amount,
                          !.total = self.total - transaction.amount,
                          !.processed_transactions =
                              insert(seen.store, transaction.tx, transaction).store],
          result |-> Ok]
    ELSE [client |-> [self EXCEPT !.processed_transactions = seen.store],
          result |-> InsufficientFunds]

\* A withdrawal that debits the account before it finds the funds missing.
withdraw_checked_debits_first(self, transaction, seen) ==
    IF seen.ret
    THEN [client |-> [self EXCEPT !.processed_transactions = seen.store],
          result |-> DuplicateTransaction]
    ELSE [client |->
             [self EXCEPT !.available = self.available - transaction.amount,
                          !.total = self.total - transaction.amount,
                          !.processed_transactions =
                              IF transaction.amount <= self.available
                              THEN insert(seen.store, transaction.tx, transaction).store
                              ELSE seen.store],
          result |-> IF transaction.amount <= self.available THEN Ok ELSE InsufficientFunds]

\* withdraw, once processed_transactions.contains_key has answered.
withdraw_checked(self, transaction, seen) ==
    IF seen.ret
    THEN [client |-> [self EXCEPT !.processed_transactions = seen.store],
          result |-> DuplicateTransaction]
    ELSE IF transaction.amount <= self.available
    THEN [client |->
             [self EXCEPT !.available = self.available - transaction.amount,
                          !.total = self.total - transaction.amount,
                          !.processed_transactions =
                              insert(seen.store, transaction.tx, transaction).store],
          result |-> Ok]
    ELSE [client |-> [self EXCEPT !.processed_transactions = seen.store],
          result |-> InsufficientFunds]

withdraw(self, transaction) ==
    IF can_process(self) # Ok THEN [client |-> self, result |-> can_process(self)]
    ELSE IF transaction.type = "Withdrawal"
    THEN withdraw_checked(self, transaction,
                          contains_key(self.processed_transactions, transaction.tx))
    ELSE [client |-> self, result |-> "Wrong transaction type, expected withdraw"]

\* A dispute that does not look at the kind of the transaction it found.
dispute_found_any_kind(self, found) ==
    IF ~found.ret.some
    THEN [client |-> [self EXCEPT !.processed_transactions = found.store],
          result |-> TransactionNotFound]
    ELSE [client |->
             [self EXCEPT !.available = self.available - found.ret.val.amount,
                          !.held = self.held + found.ret.val.amount,
                          !.processed_transactions = found.store,
                          !.disputed = insert(self.disputed, found.ret.val.tx,
                                              found.ret.val).store],
          result |-> Ok]

\* A dispute that reopens the account it finds the deposit on.
dispute_found_unlocks(self, found) ==
    IF ~found.ret.some
    THEN [client |-> [self EXCEPT !.processed_transactions = found.store],
          result |-> TransactionNotFound]
    ELSE IF found.ret.val.type = "Deposit"
    THEN [client |->
             [self EXCEPT !.available = self.available - found.ret.val.amount,
                          !.held = self.held + found.ret.val.amount,
                          !.locked = FALSE,
                          !.processed_transactions = found.store,
                          !.disputed = insert(self.disputed, found.ret.val.tx,
                                              found.ret.val).store],
          result |-> Ok]
    ELSE [client |-> [self EXCEPT !.processed_transactions = found.store],
          result |-> WrongTransactionType]

\* dispute, once processed_transactions.get has answered; self already
\* holds the disputed store as contains_key left it.
dispute_found(self, found) ==
    IF ~found.ret.some
    THEN [client |-> [self EXCEPT !.processed_transactions = found.store],
          result |-> TransactionNotFound]
    ELSE IF found.ret.val.type = "Deposit"
    THEN [client |->
             [self EXCEPT !.available = self.available - found.ret.val.amount,
                          !.held = self.held + found.ret.val.amount,
                          !.processed_transactions = found.store,
                          !.disputed = insert(self.disputed, found.ret.val.tx,
                                              found.ret.val).store],
          result |-> Ok]
    ELSE [client |-> [self EXCEPT !.processed_transactions = found.store],
          result |-> WrongTransactionType]

\* A dispute that does not ask whether the id is under dispute already.
dispute_checked_again(self, disputed_transaction_id, known) ==
    dispute_found([self EXCEPT !.disputed = known.store],
                  get(self.processed_transactions, disputed_transaction_id))

\* dispute, once disputed.contains_key has answered.
dispute_checked(self, disputed_transaction_id, known) ==
    IF known.ret
    THEN [client |-> [self EXCEPT !.disputed = known.store], result |-> AlreadyDisputed]
    ELSE dispute_found([self EXCEPT !.disputed = known.store],
                       get(self.processed_transactions, disputed_transaction_id))

\* A dispute that requires the account to be active, as resolve does.
dispute_active_only(self, disputed_transaction_id) ==
    IF can_process(self) # Ok THEN [client |-> self, result |-> can_process(self)]
    ELSE dispute_checked(self, disputed_transaction_id,
                         contains_key(self.disputed, disputed_transaction_id))

dispute(self, disputed_transaction_id) ==
    dispute_checked(self, disputed_transaction_id,
                    contains_key(self.disputed, disputed_transaction_id))

\* A resolve that releases the funds to available but leaves them held.
resolve_taken_keeps_held(self, taken) ==
    IF ~taken.ret.some
    THEN [client |-> [self EXCEPT !.disputed = taken.store], result |-> TransactionNotFound]
    ELSE [client |-> [self EXCEPT !.available = self.available + taken.ret.val.amount,
                                  !.disputed = taken.store],
          result |-> Ok]

\* resolve, once disputed.remove has answered.
resolve_taken(self, taken) ==
    IF ~taken.ret.some
    THEN [client |-> [self EXCEPT !.disputed = taken.store], result |-> TransactionNotFound]
    ELSE IF taken.ret.val.type = "Deposit"
    THEN [client |-> [self EXCEPT !.available = self.available + taken.ret.val.amount,
                                  !.held = self.held - taken.ret.val.amount,
                                  !.disputed = taken.store],
          result |-> Ok]
    ELSE [client |-> [self EXCEPT !.disputed = taken.store],
          result |-> "Wrong transaction type, expected resolve"]

resolve(self, disputed_transaction_id) ==
    IF can_process(self) # Ok THEN [client |-> self, result |-> can_process(self)]
    ELSE resolve_taken(self, remove(self.disputed, disputed_transaction_id))

\* A chargeback that takes the funds but does not lock the account.
chargeback_taken_no_lock(self, taken) ==
    IF ~taken.ret.some
    THEN [client |-> [self EXCEPT !.disputed = taken.store], result |-> TransactionNotFound]
    ELSE [client |-> [self EXCEPT !.total = self.total - taken.ret.val.amount,
                                  !.held = self.held - taken.ret.val.amount,
                                  !.disputed = taken.store],
          result |-> Ok]

\* A chargeback that takes the funds from total and leaves them held.
chargeback_taken_keeps_held(self, taken) ==
    IF ~taken.ret.some
    THEN [client |-> [self EXCEPT !.disputed = taken.store], result |-> TransactionNotFound]
    ELSE [client |-> [self EXCEPT !.locked = TRUE,
                                  !.total = self.total - taken.ret.val.amount,
                                  !.disputed = taken.store],
          result |-> Ok]

\* A chargeback that forgets total -= amount.
chargeback_taken_keeps_total(self, taken) ==
    IF ~taken.ret.some
    THEN [client |-> [self EXCEPT !.disputed = taken.store], result |-> TransactionNotFound]
    ELSE [client |-> [self EXCEPT !.locked = TRUE,
                                  !.held = self.held - taken.ret.val.amount,
                                  !.disputed = taken.store],
          result |-> Ok]

\* chargeback, once disputed.remove has answered.
chargeback_taken(self, taken) ==
    IF ~taken.ret.some
    THEN [client |-> [self EXCEPT !.disputed = taken.store], result |-> TransactionNotFound]
    ELSE IF taken.ret.val.type = "Deposit"
    THEN [client |-> [self EXCEPT !.locked = TRUE,
                                  !.total = self.total - taken.ret.val.amount,
                                  !.held = self.held - taken.ret.val.amount,
                                  !.disputed = taken.store],
          result |-> Ok]
    ELSE [client |-> [self EXCEPT !.disputed = taken.store],
          result |-> "Wrong transaction type, expected resolve"]

chargeback(self, disputed_transaction_id) ==
    IF can_process(self) # Ok THEN [client |-> self, result |-> can_process(self)]
    ELSE chargeback_taken(self, remove(self.disputed, disputed_transaction_id))

\* The row Client::serialize writes.
Client_serialize(self) ==
    <<self.client_id, Amount_to_string(self.available), Amount_to_string(self.held),
      Amount_to_string(self.total), self.locked>>

(***************************************************************************)
(* processor.rs: TransactionProcessor                                      *)
(***************************************************************************)
\* self.clients.entry(client_id).or_insert(Client::new(client_id)?)
\* An entry that is a new ledger every time.
ClientEntryOf_fresh(cs, client_id, limit, line_size) ==
    Client_new(client_id, limit, line_size)

\* for a processor instantiated with the generic parameters limit, line_size.
ClientEntryOf(cs, client_id, limit, line_size) ==
    IF client_id \in DOMAIN cs THEN cs[client_id]
    ELSE Client_new(client_id, limit, line_size)

ClientEntry(cs, client_id) == ClientEntryOf(cs, client_id, CACHE_SIZE_LIMIT, CACHE_LINE_SIZE)

\* The match arm of the transaction's kind, on the ledger of its account.
Dispatch(client, transaction) ==
    CASE transaction.type = "Deposit" -> deposit(client, transaction)
      [] transaction.type = "Withdrawal" -> withdraw(client, transaction)
      [] transaction.type = "Dispute" -> dispute(client, transaction.tx)
      [] transaction.type = "Resolve" -> resolve(client, transaction.tx)
      [] transaction.type = "ChargeBack" -> chargeback(client, transaction.tx)

\* A registry that hands the ledger the operation left to every account.
Routed_to_all(cs, client_id, done) ==
    [clients |-> [c \in (DOMAIN cs) \cup {client_id} |->
                     [done.client EXCEPT !.client_id = c]],
     result |-> done.result]

\* The registry holds the ledger as the operation left it.
Routed(cs, client_id, done) ==
    [clients |-> MapPut(cs, client_id, done.client), result |-> done.result]

\* process_transaction, once Transaction::from_record has answered.
process_parsed_of(cs, parsed, limit, line_size) ==
    IF parsed.kind = "panic" THEN [clients |-> cs, result |-> "panic"]
    ELSE IF parsed.kind = "Err" THEN [clients |-> cs, result |-> parsed.err]
    ELSE IF parsed.val.type = "Unknown"
    THEN [clients |-> cs, result |-> UnrecognizedTransactionType]
    ELSE Routed(cs, parsed.val.client,
                Dispatch(ClientEntryOf(cs, parsed.val.client, limit, line_size), parsed.val))

process_parsed(cs, parsed) == process_parsed_of(cs, parsed, CACHE_SIZE_LIMIT, CACHE_LINE_SIZE)

\* process_transaction of TransactionProcessor<limit, line_size>.
process_transaction_of(cs, record, limit, line_size) ==
    process_parsed_of(cs, from_record(record), limit, line_size)

\* Returns [clients, result]: the registry after the call and the Result;
\* "panic" when the amount text makes Amount::from_str abort the process.
process_transaction(cs, record) == process_parsed(cs, from_record(record))

\* The orders in which a HashMap may hand out the keys of ids.
Orders(ids) ==
    {o \in [1..Cardinality(ids) -> ids] :
        \A i, j \in 1..Cardinality(ids) : o[i] = o[j] => i = j}

SnapshotHeader == <<"client_id", "available", "held", "total", "locked">>

\* The rows serialize writes when the registry hands out its clients in
\* order o.
SnapshotIn(cs, o) ==
    <<SnapshotHeader>> \o [i \in 1..Len(o) |-> Client_serialize(cs[o[i]])]

\* TransactionProcessor::serialize: the snapshots it may write, one per
\* iteration order of the registry.
serialize(cs) == {SnapshotIn(cs, o) : o \in Orders(DOMAIN cs)}

(***************************************************************************)
(* Observations of a store and of a ledger.                                *)
(***************************************************************************)
\* What a caller can read from a store: the id -> transaction entries that
\* contains_key and get report.
Contents(s) ==
    [id \in {t \in TxIds \cup StoreTxIds : contains_key(s, t).ret} |-> get(s, id).ret.val]

Balances(c) ==
    [available |-> c.available, held |-> c.held, total |-> c.total, locked |-> c.locked]

\* A ledger as the claims see it: balances, lock flag and store contents.
View(c) ==
    [available |-> c.available, held |-> c.held, total |-> c.total, locked |-> c.locked,
     processed |-> Contents(c.processed_transactions), disputed |-> Contents(c.disputed)]

\* The ledger a record addressed to client_id meets.
LedgerOf(cs, client_id) == ClientEntry(cs, client_id)

(***************************************************************************)
(* main.rs: the input stream, one record per step.                         *)
(***************************************************************************)
\* Amount texts of the records: 1 and 2.5.
AmountTexts == {<<"1">>, <<"2", ".", "5">>}
AccountAmountTexts == {<<"1">>}

NoRecord ==
    [transaction_type |-> "none", client |-> 0, tx |-> 0, amount |-> None, result |-> "none"]

\* One iteration of the loop of main: the record is processed, its error
\* (if any) is reported and the loop goes on.
Fed(record, done) ==
    /\ clients' = done.clients
    /\ last' = [transaction_type |-> record.transaction_type,
                client |-> record.client, tx |-> record.tx,
                amount |-> record.amount, result |-> done.result]
    /\ before' = Balances(LedgerOf(clients, record.client))
    /\ applied' = IF done.result = Ok
                     /\ record.transaction_type \in {"deposit", "withdrawal"}
                  THEN applied \cup {<<record.client, record.tx, record.transaction_type>>}
                  ELSE applied
    /\ nrecords' = nrecords + 1
    /\ UNCHANGED storeVars

\* The same, of the processor as main instantiates it.
FedMain(record, done) == Fed(record, done) /\ UNCHANGED genericVars

\* The loop runs while records are left and the process has not aborted.
Reading(max) == nrecords < max /\ last.result # "panic"

Feed(record) == FedMain(record, process_transaction(clients, record))

DepositRecord ==
    \E c \in ClientIds, t \in TxIds, a \in AmountTexts :
        /\ Reading(MaxRecords)
        /\ Feed(TransactionRecord("deposit", c, t, Some(a)))

WithdrawalRecord ==
    \E c \in ClientIds, t \in TxIds, a \in AmountTexts :
        /\ Reading(MaxRecords)
        /\ Feed(TransactionRecord("withdrawal", c, t, Some(a)))

DisputeRecord ==
    \E c \in ClientIds, t \in TxIds :
        /\ Reading(MaxRecords)
        /\ Feed(TransactionRecord("dispute", c, t, None))

ResolveRecord ==
    \E c \in ClientIds, t \in TxIds :
        /\ Reading(MaxRecords)
        /\ Feed(TransactionRecord("resolve", c, t, None))

ChargebackRecord ==
    \E c \in ClientIds, t \in TxIds :
        /\ Reading(MaxRecords)
        /\ Feed(TransactionRecord("chargeback", c, t, None))

\* The same records, addressed to either of two accounts.
AccountsDeposit ==
    \E c \in AccountIds, t \in TxIds, a \in AccountAmountTexts :
        /\ Reading(MaxAccountRecords)
        /\ Feed(TransactionRecord("deposit", c, t, Some(a)))

AccountsWithdrawal ==
    \E c \in AccountIds, t \in TxIds, a \in AccountAmountTexts :
        /\ Reading(MaxAccountRecords)
        /\ Feed(TransactionRecord("withdrawal", c, t, Some(a)))

AccountsDispute ==
    \E c \in AccountIds, t \in TxIds :
        /\ Reading(MaxAccountRecords)
        /\ Feed(TransactionRecord("dispute", c, t, None))

AccountsResolve ==
    \E c \in AccountIds, t \in TxIds :
        /\ Reading(MaxAccountRecords)
        /\ Feed(TransactionRecord("resolve", c, t, None))

AccountsChargeback ==
    \E c \in AccountIds, t \in TxIds :
        /\ Reading(MaxAccountRecords)
        /\ Feed(TransactionRecord("chargeback", c, t, None))

\* The generic parameters TransactionProcessor is instantiated with: size
\* limits 1..MaxSizeLimit + 1 and line sizes 1..MaxLineSize.
GenericLimits == 1..(MaxSizeLimit + 1)
GenericLineSizes == 1..MaxLineSize

\* A size limit no store reaches within the records of a run: a
\* TransactionCache of that limit never flushes, never reads a file, and is
\* the HashMap of its resident lines.
NeverFlushed == MaxGenericRecords

\* The record goes to the processor of parameters limits and to the one
\* whose stores never flush.
GenericFeed(record) ==
    /\ Fed(record, process_transaction_of(clients, record, limits.limit, limits.line_size))
    /\ plain' = process_transaction_of(plain.clients, record, NeverFlushed, limits.line_size)
    /\ UNCHANGED limits

GenericDeposit ==
    \E c \in ClientIds, t \in TxIds, a \in AccountAmountTexts :
        /\ Reading(MaxGenericRecords)
        /\ GenericFeed(TransactionRecord("deposit", c, t, Some(a)))

GenericWithdrawal ==
    \E c \in ClientIds, t \in TxIds, a \in AccountAmountTexts :
        /\ Reading(MaxGenericRecords)
        /\ GenericFeed(TransactionRecord("withdrawal", c, t, Some(a)))

GenericDispute ==
    \E c \in ClientIds, t \in TxIds :
        /\ Reading(MaxGenericRecords)
        /\ GenericFeed(TransactionRecord("dispute", c, t, None))

GenericResolve ==
    \E c \in ClientIds, t \in TxIds :
        /\ Reading(MaxGenericRecords)
        /\ GenericFeed(TransactionRecord("resolve", c, t, None))

GenericChargeback ==
    \E c \in ClientIds, t \in TxIds :
        /\ Reading(MaxGenericRecords)
        /\ GenericFeed(TransactionRecord("chargeback", c, t, None))

\* A stream whose records may be ill-formed: amounts 2.5, 1.2345, 1.23456
\* and the text x; types the processor does not know ("Deposit" is not
\* "deposit").
ParsedAmountTexts ==
    {<<"2", ".", "5">>, <<"1", ".", "2", "3", "4", "5">>,
     <<"1", ".", "2", "3", "4", "5", "6">>, <<"x">>}

UnknownTypes == {"transfer", "Deposit"}

ParsedDeposit ==
    \E c \in ClientIds, t \in TxIds, a \in ParsedAmountTexts :
        /\ Reading(MaxParsedRecords)
        /\ Feed(TransactionRecord("deposit", c, t, Some(a)))

ParsedWithdrawal ==
    \E c \in ClientIds, t \in TxIds, a \in ParsedAmountTexts :
        /\ Reading(MaxParsedRecords)
        /\ Feed(TransactionRecord("withdrawal", c, t, Some(a)))

ParsedUnknown ==
    \E ty \in UnknownTypes, c \in AccountIds, t \in TxIds, a \in {None, Some(<<"x">>)} :
        /\ Reading(MaxParsedRecords)
        /\ Feed(TransactionRecord(ty, c, t, a))

\* The stream of two accounts with records that are rejected before they
\* reach a ledger: a deposit or withdrawal of 1.23456, a record of unknown
\* type.
RegistryImprecise ==
    \E ty \in {"deposit", "withdrawal"}, c \in AccountIds, t \in TxIds :
        /\ Reading(MaxAccountRecords)
        /\ Feed(TransactionRecord(ty, c, t, Some(<<"1", ".", "2", "3", "4", "5", "6">>)))

RegistryUnknown ==
    \E ty \in UnknownTypes, c \in AccountIds, t \in TxIds :
        /\ Reading(MaxAccountRecords)
        /\ Feed(TransactionRecord(ty, c, t, None))

\* A stream whose amount fields the parser accepts: -1, 0, 1 and a missing
\* amount.
SignedAmounts == {Some(<<"-", "1">>), Some(<<"0">>), Some(<<"1">>), None}

SignedDeposit ==
    \E c \in ClientIds, t \in TxIds, a \in SignedAmounts :
        /\ Reading(MaxParsedRecords)
        /\ Feed(TransactionRecord("deposit", c, t, a))

SignedWithdrawal ==
    \E c \in ClientIds, t \in TxIds, a \in SignedAmounts :
        /\ Reading(MaxParsedRecords)
        /\ Feed(TransactionRecord("withdrawal", c, t, a))

(***************************************************************************)
(* A TransactionCache driven directly by its four public operations.       *)
(***************************************************************************)
StoreTransactions(id) == {Deposit(1, id, 10000), Withdrawal(1, id, 25000)}

\* The file of the id's line holds the id.
OnDisk(s, id) ==
    /\ CacheKeyFrom(s.line_size, id) \in DOMAIN s.disk
    /\ id \in DOMAIN s.disk[CacheKeyFrom(s.line_size, id)]

\* The store after the call, and what the call returned.
StoreDone(op, id, done) ==
    /\ store' = done.store
    /\ sret' = [op |-> op, id |-> id, ret |-> done.ret]

\* insert(id, t) on the store.
Inserted(id, t) ==
    /\ StoreDone("insert", id, insert(store, id, t))
    /\ shadow' = MapPut(shadow, id, t)
    /\ sinserts' = (sinserts /\ id \notin DOMAIN shadow)
    /\ sremoved' = {r \in sremoved : r.id # id}
    /\ sops' = sops + 1
    /\ UNCHANGED <<ledgerVars, genericVars>>

\* get(id) on the store.
Got(id) ==
    /\ StoreDone("get", id, get(store, id))
    /\ sinserts' = FALSE
    /\ sops' = sops + 1
    /\ UNCHANGED <<shadow, sremoved, ledgerVars, genericVars>>

\* contains_key(id) on the store.
Asked(id) ==
    /\ StoreDone("contains_key", id, contains_key(store, id))
    /\ sinserts' = FALSE
    /\ sops' = sops + 1
    /\ UNCHANGED <<shadow, sremoved, ledgerVars, genericVars>>

\* remove(id) on the store.
Removed(id) ==
    /\ StoreDone("remove", id, remove(store, id))
    /\ shadow' = MapDel(shadow, id)
    /\ sinserts' = FALSE
    /\ sremoved' = IF remove(store, id).ret.some
                   THEN sremoved \cup {[id |-> id, spilled |-> OnDisk(store, id)]}
                   ELSE sremoved
    /\ sops' = sops + 1
    /\ UNCHANGED <<ledgerVars, genericVars>>

StoreInsert ==
    \E id \in StoreTxIds : \E t \in StoreTransactions(id) :
        /\ sops < MaxStoreOps
        /\ Inserted(id, t)

StoreGet ==
    \E id \in StoreTxIds :
        /\ sops < MaxStoreOps
        /\ Got(id)

StoreContains ==
    \E id \in StoreTxIds :
        /\ sops < MaxStoreOps
        /\ Asked(id)

StoreRemove ==
    \E id \in StoreTxIds :
        /\ sops < MaxStoreOps
        /\ Removed(id)

\* The same operations, in longer runs.
ResidencyInsert ==
    \E id \in StoreTxIds : \E t \in StoreTransactions(id) :
        /\ sops < MaxResidencyOps
        /\ Inserted(id, t)

ResidencyGet ==
    \E id \in StoreTxIds :
        /\ sops < MaxResidencyOps
        /\ Got(id)

ResidencyContains ==
    \E id \in StoreTxIds :
        /\ sops < MaxResidencyOps
        /\ Asked(id)

ResidencyRemove ==
    \E id \in StoreTxIds :
        /\ sops < MaxResidencyOps
        /\ Removed(id)

(***************************************************************************)
(* Specifications.                                                         *)
(***************************************************************************)
LedgerInit ==
    /\ clients = EmptyMap
    /\ last = NoRecord
    /\ before = Balances(Client_new(0, CACHE_SIZE_LIMIT, CACHE_LINE_SIZE))
    /\ applied = {}
    /\ nrecords = 0

\* The store's size limit is any of the small instantiations.
StoreInit ==
    /\ \E limit \in 1..MaxSizeLimit : store = TransactionCache_new(limit, CACHE_LINE_SIZE)
    /\ shadow = EmptyMap
    /\ sret = [op |-> "none", id |-> 0, ret |-> None]
    /\ sinserts = TRUE
    /\ sremoved = {}
    /\ sops = 0

\* The processor as main instantiates it.
MainInit ==
    /\ limits = [limit |-> CACHE_SIZE_LIMIT, line_size |-> CACHE_LINE_SIZE]
    /\ plain = [clients |-> EmptyMap, result |-> "none"]

\* The stream of one account.
Init == LedgerInit /\ StoreInit /\ MainInit /\ store.cache_size_limit = CACHE_SIZE_LIMIT

Next ==
    \/ DepositRecord
    \/ WithdrawalRecord
    \/ DisputeRecord
    \/ ResolveRecord
    \/ ChargebackRecord

Spec == Init /\ [][Next]_vars

\* The stream of two accounts.
AccountsNext ==
    \/ AccountsDeposit
    \/ AccountsWithdrawal
    \/ AccountsDispute
    \/ AccountsResolve
    \/ AccountsChargeback

AccountsSpec == Init /\ [][AccountsNext]_vars

\* The stream with ill-formed records.
ParsedNext ==
    \/ ParsedDeposit
    \/ ParsedWithdrawal
    \/ ParsedUnknown

ParsedSpec == Init /\ [][ParsedNext]_vars

\* The stream of one account, through processors of several parameters.
GenericInit ==
    /\ LedgerInit
    /\ StoreInit
    /\ store.cache_size_limit = CACHE_SIZE_LIMIT
    /\ \E limit \in GenericLimits, line_size \in GenericLineSizes :
           limits = [limit |-> limit, line_size |-> line_size]
    /\ plain = [clients |-> EmptyMap, result |-> "none"]

GenericNext ==
    \/ GenericDeposit
    \/ GenericWithdrawal
    \/ GenericDispute
    \/ GenericResolve
    \/ GenericChargeback

GenericSpec == GenericInit /\ [][GenericNext]_vars

\* The stream of two accounts, rejected records included.
RegistryNext ==
    \/ AccountsDeposit
    \/ AccountsWithdrawal
    \/ AccountsDispute
    \/ AccountsResolve
    \/ AccountsChargeback
    \/ RegistryImprecise
    \/ RegistryUnknown

RegistrySpec == Init /\ [][RegistryNext]_vars

\* The stream of signed, zero and missing amounts.
SignedNext ==
    \/ SignedDeposit
    \/ SignedWithdrawal

SignedSpec == Init /\ [][SignedNext]_vars

\* The store alone.
StoreSpecInit == LedgerInit /\ StoreInit /\ MainInit

StoreNext ==
    \/ StoreInsert
    \/ StoreGet
    \/ StoreContains
    \/ StoreRemove

StoreSpec == StoreSpecInit /\ [][StoreNext]_vars

\* The store alone, in longer runs.
ResidencyNext ==
    \/ ResidencyInsert
    \/ ResidencyGet
    \/ ResidencyContains
    \/ ResidencyRemove

ResidencySpec == StoreSpecInit /\ [][ResidencyNext]_vars

(***************************************************************************)
(* Vocabulary of the properties.                                           *)
(***************************************************************************)
\* The step consumed a record of the stream.
Stepped == nrecords' = nrecords + 1

\* The amount a deposit or withdrawal record carries.
AmountOf(record) == Amount_from_str(AmountTextOf(record)).val

\* Ids of the deposits and withdrawals that returned Ok on an account.
AppliedIds(c) == {a[2] : a \in {x \in applied : x[1] = c}}

\* A store has flushed at least once.
HasFlushed(s) == s.disk # EmptyMap

\* The record's type is one the processor knows.
Recognized(record) ==
    record.transaction_type \in {"deposit", "withdrawal", "dispute", "resolve", "chargeback"}

\* The text is a decimal number: digits, with at most one point among them.
IsDecimalText(text) ==
    /\ text # <<>>
    /\ \A i \in 1..Len(text) : text[i] \in {"0", "1", "2", "3", "4", "5", "6", "7", "8", "9", "."}
    /\ \A i, j \in 1..Len(text) : (text[i] = "." /\ text[j] = ".") => i = j
    /\ text[1] # "."

\* The number of digits of a decimal text that follow its point.
FractionalDigits(text) ==
    Cardinality({i \in 1..Len(text) : \E j \in 1..(i - 1) : text[j] = "."})

\* The values of the stream's amount texts, in ten-thousandths.
TenThousandths(text) ==
    CASE text = <<"1">> -> 10000
      [] text = <<"2", ".", "5">> -> 25000
      [] text = <<"1", ".", "2", "3", "4", "5">> -> 12345

\* The sum of the amounts of the entries of ids in a map of transactions.
RECURSIVE SumOfAmounts(_, _)
SumOfAmounts(entries, ids) ==
    IF ids = {} THEN 0
    ELSE entries[CHOOSE id \in ids : TRUE].amount
             + SumOfAmounts(entries, ids \ {CHOOSE id \in ids : TRUE})

\* The ids a store reports.
Ids(s) == DOMAIN Contents(s)

\* The number of transactions the lines of keys hold in memory.
RECURSIVE ResidentIn(_, _)
ResidentIn(cache, keys) ==
    IF keys = {} THEN 0
    ELSE Cardinality(DOMAIN cache[CHOOSE k \in keys : TRUE].transactions)
             + ResidentIn(cache, keys \ {CHOOSE k \in keys : TRUE})

\* The number of transactions a store holds in memory.
Resident(s) == ResidentIn(s.cache, DOMAIN s.cache)

\* The record becomes a transaction: its type is known and its amount
\* text, where the type has one, is accepted by Amount::from_str.
Parses(record) ==
    /\ Recognized(record)
    /\ record.transaction_type \in {"deposit", "withdrawal"}
       => Amount_from_str(AmountTextOf(record)).kind = "Ok"

\* A store holds nothing, in memory or on disk.
EmptyStore(s) == Resident(s) = 0 /\ s.disk = EmptyMap

\* The ledger the step created is a new one that took the step's record.
CreatedFresh ==
    (last'.client \notin DOMAIN clients /\ last'.client \in DOMAIN clients')
    => /\ ~clients'[last'.client].locked
       /\ clients'[last'.client].held = 0
       /\ EmptyStore(clients'[last'.client].disputed)
       /\ last'.result # Ok
          => /\ clients'[last'.client].available = 0
             /\ clients'[last'.client].total = 0
             /\ EmptyStore(clients'[last'.client].processed_transactions)
       /\ last'.result = Ok
          => /\ last'.transaction_type = "deposit"
             /\ clients'[last'.client].available = AmountOf(last')
             /\ clients'[last'.client].total = AmountOf(last')
             /\ contains_key(clients'[last'.client].processed_transactions, last'.tx).ret

\* The step removed no account and added at most the one its record names.
RegistryGrows ==
    /\ DOMAIN clients \subseteq DOMAIN clients'
    /\ DOMAIN clients' \subseteq (DOMAIN clients) \cup {last'.client}

\* The step replaced or reset no ledger: the others are as they were, and
\* the one the record names went on from what it held (its balances, its
\* lock, the ids it has applied).
LedgersKept ==
    \A c \in DOMAIN clients :
        /\ c # last'.client => clients'[c] = clients[c]
        /\ c = last'.client
           => /\ last'.result # Ok => Balances(clients'[c]) = Balances(clients[c])
              /\ clients[c].locked => clients'[c].locked
              /\ ( /\ last'.transaction_type \in {"deposit", "withdrawal"}
                   /\ last'.tx \in AppliedIds(c) )
                 => last'.result # Ok
              /\ (last'.result = Ok /\ last'.transaction_type = "deposit")
                 => /\ clients'[c].available = clients[c].available + AmountOf(last')
                    /\ clients'[c].total = clients[c].total + AmountOf(last')

\* Every snapshot serialize may write of the registry has the header and
\* then one row per account, the row of that account's ledger.
SnapshotComplete(cs) ==
    /\ serialize(cs) # {}
    /\ \A out \in serialize(cs) :
           /\ out[1] = SnapshotHeader
           /\ Len(out) = 1 + Cardinality(DOMAIN cs)
           /\ \A c \in DOMAIN cs :
                  /\ Cardinality({i \in 2..Len(out) : out[i][1] = c}) = 1
                  /\ \E i \in 2..Len(out) : out[i] = Client_serialize(cs[c])

(***************************************************************************)
(* C1.  For every account, after every record (deposit, withdrawal,        *)
(* dispute, resolve or chargeback, accepted or rejected), the total equals *)
(* available plus held.                                                    *)
(***************************************************************************)
C1_TotalIsAvailablePlusHeld ==
    \A c \in DOMAIN clients :
        clients[c].total = clients[c].available + clients[c].held

\* A chargeback went through on an account that still holds funds.
C1_Witness ==
    /\ last.transaction_type = "chargeback"
    /\ last.result = Ok
    /\ clients[last.client].total > 0
    /\ before.held > 0

(***************************************************************************)
(* C2.  Whenever a deposit, withdrawal, dispute, resolve or chargeback     *)
(* returns an error, the target ledger's available, held, total and locked *)
(* flag, and the id -> transaction entries of its processed and disputed   *)
(* stores, are what they were before the call.                             *)
(***************************************************************************)
C2_ErrorLeavesLedger ==
    [][(Stepped /\ last'.result # Ok)
          => View(LedgerOf(clients', last'.client)) = View(LedgerOf(clients, last'.client))]_vars

\* A withdrawal was rejected on a ledger holding disputed funds whose
\* processed store had spilled to disk.
C2_Witness ==
    /\ last.transaction_type = "withdrawal"
    /\ last.result = InsufficientFunds
    /\ clients[last.client].held > 0
    /\ HasFlushed(clients[last.client].processed_transactions)

(***************************************************************************)
(* C3.  Exactly-once application per account: once a deposit or withdrawal *)
(* with id X returned Ok on an account, every later deposit or withdrawal  *)
(* with id X on that account fails with DuplicateTransaction and leaves    *)
(* the balances unchanged, whatever deposits, withdrawals, disputes,       *)
(* resolves, flushes and reloads happened in between (after a chargeback,  *)
(* which the claim does not list, the record is rejected all the same, as  *)
(* AccountLocked); and no record ever removes X from the processed store.  *)
(***************************************************************************)
C3_ExactlyOnce ==
    [][Stepped =>
          /\ ( /\ last'.transaction_type \in {"deposit", "withdrawal"}
               /\ last'.tx \in AppliedIds(last'.client) )
             => /\ last'.result = IF clients[last'.client].locked
                                  THEN AccountLocked ELSE DuplicateTransaction
                /\ Balances(clients'[last'.client]) = Balances(clients[last'.client])
          /\ \A a \in applied :
                  a[2] \in DOMAIN Contents(clients'[a[1]].processed_transactions)]_vars

\* A deposit was rejected as a duplicate of one that had been flushed to
\* disk, with a dispute recorded in between.
C3_Witness ==
    /\ last.transaction_type = "deposit"
    /\ last.result = DuplicateTransaction
    /\ HasFlushed(clients[last.client].processed_transactions)
    /\ clients[last.client].held > 0

(***************************************************************************)
(* C4.  Store spill round-trip: after any sequence of insert(id, t) calls  *)
(* with distinct ids, of any length, get(id) returns the transaction       *)
(* inserted under id and contains_key(id) returns true, for every inserted *)
(* id.  The code loses entries: see C4_SpillRoundTrip's error trace.       *)
(***************************************************************************)
C4_SpillRoundTrip ==
    sinserts =>
        \A id \in DOMAIN shadow :
            /\ contains_key(store, id).ret
            /\ get(store, id).ret = Some(shadow[id])

(***************************************************************************)
(* C5.  No negative balance: with deposit and withdrawal amounts all       *)
(* non-negative, every account's available and total are >= 0 after every  *)
(* record.  The code lets a dispute take withdrawn funds out of available. *)
(***************************************************************************)
C5_NoNegativeBalance ==
    \A c \in DOMAIN clients : clients[c].available >= 0 /\ clients[c].total >= 0

(***************************************************************************)
(* C6.  Locked is terminal and frozen: once an account is locked, every    *)
(* later deposit, withdrawal, dispute, resolve and chargeback on it is     *)
(* rejected with AccountLocked, and its available, held and total never    *)
(* change again.  The code's dispute does not look at the lock.            *)
(***************************************************************************)
C6_LockedIsFrozen ==
    [][(Stepped /\ last'.client \in DOMAIN clients /\ clients[last'.client].locked)
          => /\ last'.result = AccountLocked
             /\ Balances(clients'[last'.client]) = Balances(clients[last'.client])]_vars

(***************************************************************************)
(* C7.  Dispute then resolve is the identity on balances: on an Active     *)
(* account, a successful dispute(X) immediately followed by resolve(X)     *)
(* returns available and held to their values before the dispute, the      *)
(* total unchanged throughout, and removes X from the disputed store; a    *)
(* second resolve(X) then fails with TransactionNotFound and changes       *)
(* nothing.  (before holds the balances the last record met.)              *)
(***************************************************************************)
C7_DisputeResolveIdentity ==
    [][(Stepped /\ last'.transaction_type = "resolve"
                /\ last.client = last'.client /\ last.tx = last'.tx
                /\ last.result = Ok)
          => /\ (last.transaction_type = "dispute" /\ ~before.locked)
                => /\ last'.result = Ok
                   /\ clients'[last'.client].available = before.available
                   /\ clients'[last'.client].held = before.held
                   /\ clients[last'.client].total = before.total
                   /\ clients'[last'.client].total = before.total
                   /\ last'.tx \in DOMAIN Contents(clients[last'.client].disputed)
                   /\ last'.tx \notin DOMAIN Contents(clients'[last'.client].disputed)
             /\ last.transaction_type = "resolve"
                => /\ last'.result = TransactionNotFound
                   /\ View(clients'[last'.client]) = View(clients[last'.client])]_vars

\* A deposit was disputed, resolved, and resolved once more.
C7_Witness ==
    /\ nrecords = 4
    /\ last.transaction_type = "resolve"
    /\ last.result = TransactionNotFound
    /\ before = Balances(clients[last.client])
    /\ before.available > 0
    /\ before.held = 0
    /\ Cardinality(applied) = 1

(***************************************************************************)
(* C8.  Chargeback of a currently disputed deposit of amount A on an       *)
(* Active account decreases total and held by A, leaves available          *)
(* unchanged, sets locked and consumes the dispute entry; a second         *)
(* chargeback of the same id, and every later withdrawal on that account,  *)
(* fail.                                                                   *)
(***************************************************************************)
C8_Chargeback ==
    [][(Stepped /\ last'.client \in DOMAIN clients) =>
          /\ ( /\ last'.transaction_type = "chargeback"
               /\ ~clients[last'.client].locked
               /\ last'.tx \in DOMAIN Contents(clients[last'.client].disputed) )
             => /\ last'.result = Ok
                /\ clients'[last'.client].total =
                       clients[last'.client].total
                           - Contents(clients[last'.client].disputed)[last'.tx].amount
                /\ clients'[last'.client].held =
                       clients[last'.client].held
                           - Contents(clients[last'.client].disputed)[last'.tx].amount
                /\ clients'[last'.client].available = clients[last'.client].available
                /\ clients'[last'.client].locked
                /\ last'.tx \notin DOMAIN Contents(clients'[last'.client].disputed)
          /\ ( /\ last'.transaction_type = "chargeback"
               /\ last.transaction_type = "chargeback" /\ last.result = Ok
               /\ last.client = last'.client /\ last.tx = last'.tx )
             => last'.result # Ok
          /\ (last'.transaction_type = "withdrawal" /\ clients[last'.client].locked)
             => /\ last'.result = AccountLocked
                /\ Balances(clients'[last'.client]) = Balances(clients[last'.client])]_vars

\* A deposit was disputed and charged back, and a withdrawal was then
\* rejected on the locked account.
C8_Witness ==
    /\ last.transaction_type = "withdrawal"
    /\ last.result = AccountLocked
    /\ clients[last.client].locked
    /\ clients[last.client].held = 0
    /\ clients[last.client].total = 0
    /\ Cardinality(applied) = 1

(***************************************************************************)
(* C9.  A dispute succeeds only against a deposit recorded in the same     *)
(* account's processed store: dispute(X) where X was never applied on that *)
(* account (never seen, rejected earlier, or applied on another account)   *)
(* fails with TransactionNotFound, and dispute(X) where X is a withdrawal  *)
(* applied on that account fails with WrongTransactionType; in both cases  *)
(* no balance and no store content changes.                                *)
(***************************************************************************)
C9_DisputeOnlyKnownDeposit ==
    [][(Stepped /\ last'.transaction_type = "dispute") =>
          /\ last'.result = Ok => <<last'.client, last'.tx, "deposit">> \in applied
          /\ last'.tx \notin AppliedIds(last'.client)
             => /\ last'.result = TransactionNotFound
                /\ View(LedgerOf(clients', last'.client))
                       = View(LedgerOf(clients, last'.client))
          /\ <<last'.client, last'.tx, "withdrawal">> \in applied
             => /\ last'.result = WrongTransactionType
                /\ View(clients'[last'.client]) = View(clients[last'.client])]_vars

\* A dispute named a deposit of the other account and was rejected.
C9_Witness ==
    /\ last.transaction_type = "dispute"
    /\ last.result = TransactionNotFound
    /\ \E a \in applied : a[1] # last.client /\ a[2] = last.tx /\ a[3] = "deposit"
    /\ \E a \in applied : a[1] = last.client

\* A dispute named a withdrawal of its account and was rejected.
C9_WitnessWithdrawal ==
    /\ last.transaction_type = "dispute"
    /\ last.result = WrongTransactionType
    /\ <<last.client, last.tx, "withdrawal">> \in applied

(***************************************************************************)
(* C10.  A withdrawal with an unprocessed id on an Active account succeeds *)
(* iff amount <= available (held funds do not count); when it fails, it    *)
(* fails with InsufficientFunds, the balances are unchanged and its id is  *)
(* not recorded, so that the id is still unprocessed for a later           *)
(* withdrawal, which succeeds once available funds suffice.                *)
(***************************************************************************)
C10_WithdrawalIffAvailable ==
    [][(Stepped /\ last'.transaction_type = "withdrawal"
                /\ ~LedgerOf(clients, last'.client).locked
                /\ last'.tx \notin AppliedIds(last'.client))
          => /\ last'.result = Ok
                <=> AmountOf(last') <= LedgerOf(clients, last'.client).available
             /\ last'.result = Ok
                => /\ clients'[last'.client].available =
                          LedgerOf(clients, last'.client).available - AmountOf(last')
                   /\ clients'[last'.client].total =
                          LedgerOf(clients, last'.client).total - AmountOf(last')
                   /\ clients'[last'.client].held = LedgerOf(clients, last'.client).held
                   /\ last'.tx \in DOMAIN Contents(clients'[last'.client].processed_transactions)
             /\ last'.result # Ok
                => /\ last'.result = InsufficientFunds
                   /\ Balances(clients'[last'.client])
                          = Balances(LedgerOf(clients, last'.client))
                   /\ last'.tx \notin
                          DOMAIN Contents(clients'[last'.client].processed_transactions)
                   /\ \A a \in applied' : ~(a[1] = last'.client /\ a[2] = last'.tx)]_vars

\* A withdrawal that the total would cover, but available does not, was
\* rejected.
C10_Witness ==
    /\ last.transaction_type = "withdrawal"
    /\ last.result = InsufficientFunds
    /\ clients[last.client].available < AmountOf(last)
    /\ AmountOf(last) <= clients[last.client].total
    /\ clients[last.client].held > 0

(***************************************************************************)
(* C11.  A deposit or withdrawal record whose amount text is no decimal    *)
(* number is rejected with an error returned to the caller and changes no  *)
(* ledger, after which the stream goes on.  The code unwraps the result of *)
(* Decimal::from_str: the process aborts on such a record.                 *)
(***************************************************************************)
C11_IllFormedAmountIsRejected ==
    [][(Stepped /\ last'.transaction_type \in {"deposit", "withdrawal"}
                /\ ~IsDecimalText(AmountTextOf(last')))
          => /\ last'.result \notin {Ok, "panic"}
             /\ clients' = clients]_vars

(***************************************************************************)
(* C12.  Store remove is durable: once remove(id) has returned a           *)
(* transaction, get(id) finds nothing and contains_key(id) is false after  *)
(* any later operations that do not insert id again, whether or not the    *)
(* id's line was on disk before the remove and whatever flushes and        *)
(* reloads happen afterwards.                                              *)
(***************************************************************************)
C12_RemoveIsDurable ==
    \A r \in sremoved :
        /\ ~contains_key(store, r.id).ret
        /\ get(store, r.id).ret = None

\* An id was removed whose line was on disk; an insert then flushed the
\* store, rewriting the file of that line.
C12_Witness ==
    \E r \in sremoved :
        /\ r.spilled
        /\ sret.op = "insert"
        /\ store.cache = EmptyMap
        /\ CacheKeyFrom(store.line_size, r.id) \in DOMAIN store.disk
        /\ store.disk[CacheKeyFrom(store.line_size, r.id)] # EmptyMap

(***************************************************************************)
(* C13.  Bounded residency: after any sequence of get, contains_key,       *)
(* remove and insert, the number of transactions a store holds in memory   *)
(* is at most the size limit plus one line's width.  The code flushes only *)
(* in insert, so reads of several spilled lines accumulate in memory.      *)
(***************************************************************************)
C13_BoundedResidency ==
    Resident(store) <= store.cache_size_limit + store.line_size

(***************************************************************************)
(* C14.  A record whose type is none of deposit, withdrawal, dispute,      *)
(* resolve, chargeback fails with UnrecognizedTransactionType, whatever    *)
(* its amount field holds; it creates no account in the registry and       *)
(* changes no ledger.                                                      *)
(***************************************************************************)
C14_UnrecognizedIsNotRouted ==
    [][(Stepped /\ ~Recognized(last'))
          => /\ last'.result = UnrecognizedTransactionType
             /\ DOMAIN clients' = DOMAIN clients
             /\ clients' = clients]_vars

\* A record of type "Deposit" named an account the registry does not hold,
\* next to an account with funds; its amount field was no number.
C14_Witness ==
    /\ last.transaction_type = "Deposit"
    /\ last.amount = Some(<<"x">>)
    /\ last.result = UnrecognizedTransactionType
    /\ last.client \notin DOMAIN clients
    /\ \E c \in DOMAIN clients : clients[c].total > 0

(***************************************************************************)
(* C15.  Flush transparency at ledger level: for every stream of records   *)
(* and every size limit and line size, each record's outcome (Ok or which  *)
(* error) and every account's available, held, total and locked are those  *)
(* of a processor whose processed and disputed stores are plain in-memory  *)
(* maps (stores that never flush), and so are the entries the stores       *)
(* report.                                                                 *)
(***************************************************************************)
C15_FlushTransparency ==
    /\ last.result = plain.result
    /\ DOMAIN clients = DOMAIN plain.clients
    /\ \A c \in DOMAIN clients :
           /\ View(clients[c]) = View(plain.clients[c])
           /\ ~HasFlushed(plain.clients[c].processed_transactions)
           /\ ~HasFlushed(plain.clients[c].disputed)

\* A dispute went through on a deposit read back from disk, on an account
\* whose processed and disputed stores have both been flushed.
C15_Witness ==
    /\ last.transaction_type = "dispute"
    /\ last.result = Ok
    /\ OnDisk(clients[last.client].processed_transactions, last.tx)
    /\ HasFlushed(clients[last.client].processed_transactions)
    /\ HasFlushed(clients[last.client].disputed)

(***************************************************************************)
(* C16.  A deposit or withdrawal whose amount text has more than 4         *)
(* fractional digits is rejected with InvalidPrecision: no balance changes *)
(* and no transaction id is recorded.  An amount text with 4 or fewer      *)
(* fractional digits is never rejected for its precision, and an accepted  *)
(* record moves exactly the value of its text.                             *)
(***************************************************************************)
C16_PrecisionOfAmounts ==
    [][(Stepped /\ last'.transaction_type \in {"deposit", "withdrawal"}
                /\ IsDecimalText(AmountTextOf(last')))
          => /\ FractionalDigits(AmountTextOf(last')) > 4
                => /\ last'.result = InvalidPrecision
                   /\ View(LedgerOf(clients', last'.client))
                          = View(LedgerOf(clients, last'.client))
                   /\ applied' = applied
             /\ FractionalDigits(AmountTextOf(last')) <= 4
                => /\ last'.result # InvalidPrecision
                   /\ (last'.result = Ok /\ last'.transaction_type = "deposit")
                      => /\ clients'[last'.client].available =
                                LedgerOf(clients, last'.client).available
                                    + TenThousandths(AmountTextOf(last'))
                         /\ clients'[last'.client].total =
                                LedgerOf(clients, last'.client).total
                                    + TenThousandths(AmountTextOf(last'))
                         /\ Contents(clients'[last'.client].processed_transactions)[last'.tx].amount
                                = TenThousandths(AmountTextOf(last'))
                   /\ (last'.result = Ok /\ last'.transaction_type = "withdrawal")
                      => /\ clients'[last'.client].available =
                                LedgerOf(clients, last'.client).available
                                    - TenThousandths(AmountTextOf(last'))
                         /\ clients'[last'.client].total =
                                LedgerOf(clients, last'.client).total
                                    - TenThousandths(AmountTextOf(last'))]_vars

\* A deposit of 1.23456 was rejected on an account that holds 1.2345 from
\* an earlier deposit.
C16_Witness ==
    /\ last.transaction_type = "deposit"
    /\ last.amount = Some(<<"1", ".", "2", "3", "4", "5", "6">>)
    /\ last.result = InvalidPrecision
    /\ last.client \in DOMAIN clients
    /\ clients[last.client].available = 12345

(***************************************************************************)
(* C17.  Dispute has no Active precondition: on a Locked account, a        *)
(* dispute of a processed deposit that is not in the disputed store (the   *)
(* deposit whose chargeback locked the account included) succeeds and      *)
(* moves the deposit's amount from available to held, while resolve,       *)
(* chargeback, deposit and withdrawal on that account are rejected with    *)
(* AccountLocked and change nothing.                                       *)
(***************************************************************************)
C17_DisputeOnLockedAccount ==
    [][(Stepped /\ last'.client \in DOMAIN clients /\ clients[last'.client].locked)
          => /\ ( /\ last'.transaction_type = "dispute"
                  /\ <<last'.client, last'.tx, "deposit">> \in applied
                  /\ last'.tx \notin Ids(clients[last'.client].disputed) )
                => /\ last'.result = Ok
                   /\ clients'[last'.client].available =
                          clients[last'.client].available
                              - Contents(clients[last'.client].processed_transactions)[last'.tx].amount
                   /\ clients'[last'.client].held =
                          clients[last'.client].held
                              + Contents(clients[last'.client].processed_transactions)[last'.tx].amount
                   /\ clients'[last'.client].total = clients[last'.client].total
                   /\ clients'[last'.client].locked
                   /\ last'.tx \in Ids(clients'[last'.client].disputed)
             /\ last'.transaction_type \in {"resolve", "chargeback", "deposit", "withdrawal"}
                => /\ last'.result = AccountLocked
                   /\ View(clients'[last'.client]) = View(clients[last'.client])]_vars

\* The one deposit of an account was disputed and charged back, and a
\* second dispute of it went through on the locked account.
C17_Witness ==
    /\ last.transaction_type = "dispute"
    /\ last.result = Ok
    /\ before.locked
    /\ Cardinality(applied) = 1
    /\ clients[last.client].held > 0
    /\ clients[last.client].available < 0

(***************************************************************************)
(* C18.  A deposit is held at most once at a time: a dispute of an id that *)
(* is in the disputed store fails with AlreadyDisputed and changes         *)
(* nothing, a dispute that succeeds names an id that was not in the        *)
(* disputed store, and an id leaves the disputed store only through a      *)
(* successful resolve or chargeback of that id.                            *)
(***************************************************************************)
C18_HeldAtMostOnce ==
    [][(Stepped /\ last'.client \in DOMAIN clients)
          => /\ ( /\ last'.transaction_type = "dispute"
                  /\ last'.tx \in Ids(clients[last'.client].disputed) )
                => /\ last'.result = AlreadyDisputed
                   /\ View(clients'[last'.client]) = View(clients[last'.client])
             /\ (last'.transaction_type = "dispute" /\ last'.result = Ok)
                => /\ last'.tx \notin Ids(clients[last'.client].disputed)
                   /\ Ids(clients'[last'.client].disputed)
                          = Ids(clients[last'.client].disputed) \cup {last'.tx}
             /\ \A x \in Ids(clients[last'.client].disputed) :
                    x \notin Ids(clients'[last'.client].disputed)
                    => /\ last'.transaction_type \in {"resolve", "chargeback"}
                       /\ last'.tx = x
                       /\ last'.result = Ok]_vars

\* A deposit under dispute was disputed once more, and rejected.
C18_Witness ==
    /\ last.transaction_type = "dispute"
    /\ last.result = AlreadyDisputed
    /\ last.tx \in Ids(clients[last.client].disputed)
    /\ clients[last.client].held = Contents(clients[last.client].disputed)[last.tx].amount
    /\ before.held = clients[last.client].held

(***************************************************************************)
(* C19.  In every reachable state of an account, held is the sum of the    *)
(* amounts of the transactions in its disputed store, and every entry of   *)
(* the disputed store is a Deposit that its processed store holds too,     *)
(* with the same amount.                                                   *)
(***************************************************************************)
C19_HeldIsDisputedSum ==
    \A c \in DOMAIN clients :
        /\ clients[c].held =
               SumOfAmounts(Contents(clients[c].disputed), Ids(clients[c].disputed))
        /\ \A x \in Ids(clients[c].disputed) :
               /\ Contents(clients[c].disputed)[x].type = "Deposit"
               /\ x \in Ids(clients[c].processed_transactions)
               /\ Contents(clients[c].processed_transactions)[x]
                      = Contents(clients[c].disputed)[x]

\* Two deposits of different amounts are under dispute, the disputed store
\* having been flushed.
C19_Witness ==
    \E c \in DOMAIN clients :
        /\ Cardinality(Ids(clients[c].disputed)) = 2
        /\ clients[c].held = 35000
        /\ HasFlushed(clients[c].disputed)

(***************************************************************************)
(* C20.  The locked flag is monotone: it is false on a newly created       *)
(* ledger, a record turns it true only if it is a chargeback that          *)
(* succeeds, and once true no record resets it.                            *)
(***************************************************************************)
C20_LockedIsMonotone ==
    [][Stepped
          => /\ ~Client_new(last'.client, CACHE_SIZE_LIMIT, CACHE_LINE_SIZE).locked
             /\ last'.client \notin DOMAIN clients => ~clients'[last'.client].locked
             /\ (clients'[last'.client].locked /\ ~LedgerOf(clients, last'.client).locked)
                => (last'.transaction_type = "chargeback" /\ last'.result = Ok)
             /\ LedgerOf(clients, last'.client).locked => clients'[last'.client].locked
             /\ (last'.transaction_type = "chargeback" /\ last'.result = Ok)
                => clients'[last'.client].locked]_vars

\* A locked account took a dispute, which went through, and is still
\* locked.
C20_Witness ==
    /\ last.transaction_type = "dispute"
    /\ last.result = Ok
    /\ before.locked
    /\ clients[last.client].locked

(***************************************************************************)
(* C21.  insert(id, t) returns the transaction the store held under id,    *)
(* whether that entry was resident or had been spilled to disk, and        *)
(* returns none only when the store held no entry for id.  The code's      *)
(* insert looks at the resident line only.                                 *)
(***************************************************************************)
C21_InsertReturnsPrevious ==
    [][(sops' = sops + 1 /\ sret'.op = "insert")
          => sret'.ret = IF contains_key(store, sret'.id).ret
                         THEN get(store, sret'.id).ret
                         ELSE None]_vars

(***************************************************************************)
(* C22.  In every reachable state of a store, its resident counter         *)
(* (cache_size) is the number of transactions held in memory across all    *)
(* its lines.  The code's remove leaves the counter as it was.             *)
(***************************************************************************)
C22_CounterIsResidentCount ==
    store.cache_size = Resident(store)

(***************************************************************************)
(* C24 as stated.  A ledger with zero balances and locked = false is       *)
(* created the first time a record of a recognised kind names its account, *)
(* whether or not the operation succeeds; the registry only grows, no      *)
(* ledger is replaced or reset, and the snapshot contains every account    *)
(* exactly once.  It fails on a deposit or withdrawal whose amount is      *)
(* rejected by the parser: such a record creates no ledger.                *)
(***************************************************************************)
C24_CreatedByEveryRecognisedRecord ==
    /\ [][Stepped
          => /\ Recognized(last') => last'.client \in DOMAIN clients'
             /\ CreatedFresh
             /\ RegistryGrows
             /\ LedgersKept]_vars
    /\ []SnapshotComplete(clients)

(***************************************************************************)
(* C24, amended.  A ledger with zero balances and locked = false is        *)
(* created the first time a record that becomes a transaction of a         *)
(* recognised kind (its amount text, where it has one, accepted by the     *)
(* parser) names its account, whether or not the operation succeeds; a     *)
(* record that does not become one creates and changes nothing; the        *)
(* registry only grows, no ledger is replaced or reset, and the snapshot   *)
(* contains every account exactly once.                                    *)
(***************************************************************************)
C24_CreatedByEveryTransaction ==
    /\ [][Stepped
          => /\ Parses(last') => last'.client \in DOMAIN clients'
             /\ ~Parses(last') => clients' = clients
             /\ CreatedFresh
             /\ RegistryGrows
             /\ LedgersKept]_vars
    /\ []SnapshotComplete(clients)

\* After a deposit on one account, a dispute that failed created the
\* ledger of the other, which the snapshot lists with zero balances.
C24_Witness ==
    /\ nrecords = 2
    /\ last.transaction_type = "dispute"
    /\ last.result = TransactionNotFound
    /\ Cardinality(applied) = 1
    /\ \A a \in applied : a[1] # last.client
    /\ DOMAIN clients = AccountIds
    /\ \A out \in serialize(clients) :
          \E i \in 2..Len(out) :
              out[i] = <<last.client, <<"0", ".", "0", "0", "0", "0">>,
                         <<"0", ".", "0", "0", "0", "0">>,
                         <<"0", ".", "0", "0", "0", "0">>, FALSE>>

(***************************************************************************)
(* C25.  For every amount the parser accepts (zero, a missing amount read  *)
(* as 0.0 and signed values included), a successful deposit never          *)
(* decreases available or total and a successful withdrawal never          *)
(* increases them.  The code applies a negative amount as it stands.       *)
(***************************************************************************)
C25_DepositsAddWithdrawalsTake ==
    [][(Stepped /\ last'.result = Ok)
          => /\ last'.transaction_type = "deposit"
                => /\ clients'[last'.client].available
                          >= LedgerOf(clients, last'.client).available
                   /\ clients'[last'.client].total
                          >= LedgerOf(clients, last'.client).total
             /\ last'.transaction_type = "withdrawal"
                => /\ clients'[last'.client].available
                          <= LedgerOf(clients, last'.client).available
                   /\ clients'[last'.client].total
                          <= LedgerOf(clients, last'.client).total]_vars

(***************************************************************************)
(* C26.  Lazy-load marking: after a get, contains_key, remove or insert on *)
(* an id, the id's line is resident and marked loaded unless the call      *)
(* flushed the store, a line created by insert or first accessed without a *)
(* file included; and a get or contains_key on a line marked loaded reads  *)
(* nothing from disk.  The code marks a line loaded only when it reads a   *)
(* file.                                                                   *)
(***************************************************************************)
C26_TouchedLineIsLoaded ==
    [][(sops' = sops + 1) =>
          /\ store'.cache # EmptyMap
             => /\ CacheKeyFrom(store.line_size, sret'.id) \in DOMAIN store'.cache
                /\ store'.cache[CacheKeyFrom(store.line_size, sret'.id)].loaded
          /\ ( /\ sret'.op \in {"get", "contains_key"}
               /\ CacheKeyFrom(store.line_size, sret'.id) \in DOMAIN store.cache
               /\ store.cache[CacheKeyFrom(store.line_size, sret'.id)].loaded )
             => store' = store]_vars

(***************************************************************************)
(* C23.  Account isolation: a record addressed to account A leaves the     *)
(* ledger of every other account (available, held, total, locked flag and  *)
(* both stores) as it was, also when the record's transaction id was       *)
(* applied on another account.                                             *)
(***************************************************************************)
C23_AccountIsolation ==
    [][Stepped
          => \A c \in DOMAIN clients :
                c # last'.client
                => /\ c \in DOMAIN clients'
                   /\ clients'[c] = clients[c]]_vars

\* A chargeback on one account named a deposit that another account holds
\* under dispute, and was rejected.
C23_Witness ==
    /\ last.transaction_type = "chargeback"
    /\ last.result = TransactionNotFound
    /\ \E c \in DOMAIN clients :
          /\ c # last.client
          /\ <<c, last.tx, "deposit">> \in applied
          /\ last.tx \in Ids(clients[c].disputed)
          /\ clients[c].held > 0

=============================================================================
